---- MODULE Spec2Model ----
(***************************************************************************)
(* Model of the Smarty VS Code extension client:                           *)
(*   client/src/extension.ts            (decoration scan, literal filter,  *)
(*                                       delimiter probe, debounce, setup) *)
(*   client/src/language/completionItem.ts (include-path completion)       *)
(*                                                                         *)
(* Texts are sequences of one-character strings; offsets are 0-based as in *)
(* JavaScript, so the character at offset k of text t is t[k + 1].         *)
(***************************************************************************)
EXTENDS Integers, Sequences, FiniteSets, TLC

VARIABLES
    docText,        \* updateDecorations' local docText (SpecScan: the text under scan)
    scanned,        \* every match the exec loop of updateDecorations found, in order
    smartyTags,     \* the DecorationOptions[] updateDecorations hands to setDecorations
    blockComment,   \* comments.blockComment pair last given to setLanguageConfiguration
    scanPc,         \* SpecScan: which handlers have run on docText
    activated,          \* activate() has run
    cfgHighlight,       \* the workspace setting smarty.highlight
    CONFIG,             \* the exported CONFIG object (its highlight field)
    smartyDecoration,   \* "undefined", or the state of the decoration type it refers to
    editorRegistration, \* "undefined", or the state of the onDidChangeActiveTextEditor listener
    docRegistration,    \* "undefined", or the state of the onDidChangeTextDocument listener
    windowEditor,       \* window.activeTextEditor: 0 (none) or the document it shows
    activeTextEditor,   \* activate()'s local activeTextEditor: 0 (undefined) or a document
    docs,               \* text of every open document
    timers,             \* the event loop's pending timeouts: records [id, remaining]
    timeout,            \* activate()'s local timeout: 0 (undefined) or a timer id
    lastSetDecorations, \* the last setDecorations call: NoCall or [type, editor]
    lastEvent,          \* history: the last event handled
    burst,              \* history: the change events since the last quiet period
    line,               \* SpecCompletion: text of the line the cursor is on
    position,           \* SpecCompletion: the cursor, [line, character]
    complPc,            \* SpecCompletion: where provideCompletionItems is
    fillRange,          \* SpecCompletion: the local fillRange
    dir,                \* SpecCompletion: the local dir, as path segments
    findFiles,          \* SpecCompletion: the findFiles promise: "none", "pending", "resolved", "rejected"
    subFiles,           \* SpecCompletion: what findFiles resolved with
    items               \* SpecCompletion: the array provideCompletionItems returns

scanVars == <<docText, scanned, smartyTags, scanPc>>
editorVars == <<activated, cfgHighlight, CONFIG, smartyDecoration, editorRegistration,
                docRegistration, windowEditor, activeTextEditor, docs, timers,
                timeout, lastSetDecorations, lastEvent, burst>>
complVars == <<line, position, complPc, fillRange, dir, findFiles, subFiles, items>>
vars == <<docText, scanned, smartyTags, blockComment, scanPc, activated,
          cfgHighlight, CONFIG, smartyDecoration, editorRegistration,
          docRegistration, windowEditor, activeTextEditor, docs, timers,
          timeout, lastSetDecorations, lastEvent, burst, line, position,
          complPc, fillRange, dir, findFiles, subFiles, items>>

(***************************************************************************)
(* Bounds                                                                  *)
(***************************************************************************)
MaxLen == 5       \* longest character-level document
MaxSpans == 5     \* longest tag-level document (number of tags)
NumDocs == 2      \* open documents; the last one is not a smarty document
TicksPerDelay == 2  \* clock steps in one debounce delay
MaxTimers == 2    \* pending timeouts the event loop holds at most
MaxFound == 3     \* files one findFiles call resolves with at most

(***************************************************************************)
(* Characters and strings                                                  *)
(***************************************************************************)
EOF == "<eof>"
NoMatch == -1

CharAt(text, k) == IF k >= 0 /\ k < Len(text) THEN text[k + 1] ELSE EOF

\* JavaScript \s (the members that occur in the modelled alphabet)
IsWhitespace(c) == c \in {" ", "\n", "\t", "\r"}
\* characters the dot does not match
IsLineTerminator(c) == c \in {"\n", "\r"}

\* String.prototype.includes
Includes(hay, needle) ==
    \E k \in 0..(Len(hay) - Len(needle)) :
        SubSeq(hay, k + 1, k + Len(needle)) = needle

\* String.prototype.startsWith
StartsWith(s, prefix) ==
    Len(s) >= Len(prefix) /\ SubSeq(s, 1, Len(prefix)) = prefix

LiteralOpen == <<"{", "l", "i", "t", "e", "r", "a", "l", "}">>
LiteralClose == <<"{", "/", "l", "i", "t", "e", "r", "a", "l", "}">>

(***************************************************************************)
(* TextDocument: positionAt, offsetAt, getText(range)                      *)
(***************************************************************************)
RECURSIVE LineStartOffset(_, _)
\* offset of the first character of the line that holds offset k
LineStartOffset(text, k) ==
    IF k = 0 THEN 0
    ELSE IF text[k] = "\n" THEN k
    ELSE LineStartOffset(text, k - 1)

RECURSIVE LineOf(_, _)
\* number of line breaks before offset k
LineOf(text, k) ==
    IF k = 0 THEN 0
    ELSE LineOf(text, k - 1) + (IF text[k] = "\n" THEN 1 ELSE 0)

positionAt(text, k) ==
    [line |-> LineOf(text, k), character |-> k - LineStartOffset(text, k)]

RECURSIVE lineStart(_, _, _)
\* offset of the first character of line number n, searching from offset k
lineStart(text, n, k) ==
    IF n = 0 \/ k >= Len(text) THEN k
    ELSE lineStart(text, IF text[k + 1] = "\n" THEN n - 1 ELSE n, k + 1)

offsetAt(text, pos) == lineStart(text, pos.line, 0) + pos.character

\* new Range(startPos, endPos)
Range(startPos, endPos) == [start |-> startPos, end |-> endPos]

\* document.getText(range)
getText(text, range) ==
    SubSeq(text, offsetAt(text, range.start) + 1, offsetAt(text, range.end))

(***************************************************************************)
(* smartyRegExp = /({{?\*.*?\*}}?)|{{?[^}\n\s]([^{}]|{[^{}]*})*}}?/g       *)
(* Each operator returns the offset just past the match, or NoMatch.       *)
(***************************************************************************)
RECURSIVE LazyUntilStarBrace(_, _)
\* .*?\*}  from offset j: the first k >= j with "*" at k and "}" at k+1,
\* no line terminator skipped on the way; returns k
LazyUntilStarBrace(text, j) ==
    IF CharAt(text, j) = "*" /\ CharAt(text, j + 1) = "}" THEN j
    ELSE IF j >= Len(text) \/ IsLineTerminator(CharAt(text, j)) THEN NoMatch
    ELSE LazyUntilStarBrace(text, j + 1)

\* \*.*?\*}}?  from offset j
CommentFrom(text, j) ==
    IF CharAt(text, j) # "*" THEN NoMatch
    ELSE LET k == LazyUntilStarBrace(text, j + 1) IN
         IF k = NoMatch THEN NoMatch
         ELSE IF CharAt(text, k + 2) = "}" THEN k + 3 ELSE k + 2

\* first alternative  {{?\*.*?\*}}?  at offset i ({{? is greedy, then backtracks)
MatchComment(text, i) ==
    IF CharAt(text, i) # "{" THEN NoMatch
    ELSE LET two == IF CharAt(text, i + 1) = "{"
                    THEN CommentFrom(text, i + 2) ELSE NoMatch
         IN IF two # NoMatch THEN two ELSE CommentFrom(text, i + 1)

RECURSIVE SkipNonBrace(_, _)
\* [^{}]*  from offset p
SkipNonBrace(text, p) ==
    IF CharAt(text, p) \in {EOF, "{", "}"} THEN p
    ELSE SkipNonBrace(text, p + 1)

RECURSIVE BodyLoop(_, _)
\* ([^{}]|{[^{}]*})*  from offset p, greedy: the offset where the loop stops.
\* A unit never starts on "}", so giving iterations back cannot help the
\* "}" that has to follow.
BodyLoop(text, p) ==
    LET c == CharAt(text, p) IN
    IF c = EOF \/ c = "}" THEN p
    ELSE IF c # "{" THEN BodyLoop(text, p + 1)
    ELSE LET q == SkipNonBrace(text, p + 1) IN
         IF CharAt(text, q) = "}" THEN BodyLoop(text, q + 1) ELSE p

\* [^}\n\s]([^{}]|{[^{}]*})*}}?  from offset j
GenericFrom(text, j) ==
    LET c == CharAt(text, j) IN
    IF c = EOF \/ c = "}" \/ IsWhitespace(c) THEN NoMatch
    ELSE LET p == BodyLoop(text, j + 1) IN
         IF CharAt(text, p) # "}" THEN NoMatch
         ELSE IF CharAt(text, p + 1) = "}" THEN p + 2 ELSE p + 1

\* second alternative  {{?[^}\n\s]([^{}]|{[^{}]*})*}}?  at offset i
MatchGeneric(text, i) ==
    IF CharAt(text, i) # "{" THEN NoMatch
    ELSE LET two == IF CharAt(text, i + 1) = "{"
                    THEN GenericFrom(text, i + 2) ELSE NoMatch
         IN IF two # NoMatch THEN two ELSE GenericFrom(text, i + 1)

\* the whole pattern anchored at offset i
smartyRegExpAt(text, i) ==
    LET c == MatchComment(text, i) IN
    IF c # NoMatch THEN c ELSE MatchGeneric(text, i)

RECURSIVE smartyRegExpExec(_, _)
\* smartyRegExp.exec(docText) with lastIndex = from: the leftmost match at or
\* after from, as [index, end], or [index |-> NoMatch] for null
smartyRegExpExec(text, from) ==
    IF from >= Len(text) THEN [index |-> NoMatch, end |-> NoMatch]
    ELSE LET e == smartyRegExpAt(text, from) IN
         IF e # NoMatch THEN [index |-> from, end |-> e]
         ELSE smartyRegExpExec(text, from + 1)

(***************************************************************************)
(* updateDecorations: the scan loop with its literal check                 *)
(***************************************************************************)
\* bug variant: the scan resumes one character after the match's start
lastIndexAfterStart(m) == m.index + 1

\* the g flag: after a match, lastIndex is the offset just past it
lastIndexAfter(m) == m.end

\* bug variant: the closing-marker exception is forgotten
pushesDecorationNoClose(text, tags, rangeTxt) ==
    LET prevRangeTxt == IF Len(tags) > 0
                        THEN getText(text, tags[Len(tags)].range)
                        ELSE <<>>
    IN ~Includes(prevRangeTxt, LiteralOpen)

\* bug variant: the opening marker is looked for in the current span
pushesDecorationCurrent(text, tags, rangeTxt) ==
    ~Includes(rangeTxt, LiteralOpen) \/ Includes(rangeTxt, LiteralClose)

\* one iteration's decision: is the decoration pushed?
pushesDecoration(text, tags, rangeTxt) ==
    LET prevRangeTxt == IF Len(tags) > 0
                        THEN getText(text, tags[Len(tags)].range)
                        ELSE <<>>
    IN ~Includes(prevRangeTxt, LiteralOpen) \/ Includes(rangeTxt, LiteralClose)

RECURSIVE scanLoop(_, _, _, _)
\* while (match = smartyRegExp.exec(docText)) { ... }
\* returns [found: every match, tags: the decorations pushed]
scanLoop(text, lastIndex, found, tags) ==
    LET m == smartyRegExpExec(text, lastIndex) IN
    IF m.index = NoMatch THEN [found |-> found, tags |-> tags]
    ELSE LET startPos == positionAt(text, m.index)
             endPos == positionAt(text, m.end)
             range == Range(startPos, endPos)
             rangeTxt == getText(text, range)
             decoration == [range |-> range]
         IN scanLoop(text, lastIndexAfter(m), Append(found, m),
                     IF pushesDecoration(text, tags, rangeTxt)
                     THEN Append(tags, decoration) ELSE tags)

(***************************************************************************)
(* setLanguageConfiguration:                                               *)
(* doubleBraceRegExp = /({{\*.*?\*}})|{{[^}\n\s]([^{}]|{[^{}]*})*}}/m      *)
(***************************************************************************)
RECURSIVE LazyUntilStarBraces(_, _)
\* .*?\*}}  from offset j: returns the offset past the match
LazyUntilStarBraces(text, j) ==
    IF CharAt(text, j) = "*" /\ CharAt(text, j + 1) = "}"
       /\ CharAt(text, j + 2) = "}" THEN j + 3
    ELSE IF j >= Len(text) \/ IsLineTerminator(CharAt(text, j)) THEN NoMatch
    ELSE LazyUntilStarBraces(text, j + 1)

doubleBraceRegExpAt(text, i) ==
    IF ~(CharAt(text, i) = "{" /\ CharAt(text, i + 1) = "{") THEN NoMatch
    ELSE LET c == IF CharAt(text, i + 2) = "*"
                  THEN LazyUntilStarBraces(text, i + 3) ELSE NoMatch
             f == CharAt(text, i + 2)
         IN IF c # NoMatch THEN c
            ELSE IF f = EOF \/ f = "}" \/ IsWhitespace(f) THEN NoMatch
            ELSE LET p == BodyLoop(text, i + 3) IN
                 IF CharAt(text, p) = "}" /\ CharAt(text, p + 1) = "}"
                 THEN p + 2 ELSE NoMatch

\* bug variant: the probe is tried at the start of the text only
doubleBraceRegExpExecAnchored(text) ==
    doubleBraceRegExpAt(text, 0) # NoMatch

\* doubleBraceRegExp.exec(docText) is not null
doubleBraceRegExpExec(text) ==
    \E i \in 0..(Len(text) - 1) : doubleBraceRegExpAt(text, i) # NoMatch

SinglePair == <<"{*", "*}">>
DoublePair == <<"{{*", "*}}">>

\* the pair setLanguageConfiguration computes for a text
languagePair(text) ==
    IF doubleBraceRegExpExec(text) THEN DoublePair ELSE SinglePair

(***************************************************************************)
(* SpecScan: updateDecorations and setLanguageConfiguration run on one     *)
(* document drawn from a bounded set of texts.                             *)
(***************************************************************************)
Alphabet == {"{", "}", "a", " ", "*", "\n"}

CharTexts == UNION {[1..n -> Alphabet] : n \in 0..MaxLen}

TagA == <<"{", "a", "}">>
TagBoth == <<"{", "a", " ">> \o LiteralOpen \o LiteralClose \o <<"}">>
TagDouble == <<"{", "{", "a", "}", "}">>
TagKinds == <<LiteralOpen, LiteralClose, TagA, TagBoth, TagDouble>>

RECURSIVE Flatten(_)
Flatten(ss) == IF ss = <<>> THEN <<>> ELSE Head(ss) \o Flatten(Tail(ss))

TagTexts ==
    {Flatten([i \in 1..Len(ks) |-> TagKinds[ks[i]]]) :
        ks \in UNION {[1..n -> 1..Len(TagKinds)] : n \in 0..MaxSpans}}

(***************************************************************************)
(* The extension's event handlers (activate, setup and the listeners)      *)
(***************************************************************************)
DebounceMs == 500

Docs == 1..NumDocs
\* document.languageId
languageId(d) == IF d = NumDocs THEN "html" ELSE "smarty"

\* the texts a document takes: one of each delimiter dialect
EditorTexts == {TagA \o LiteralOpen \o TagA \o LiteralClose, TagDouble}

NoCall == [type |-> "none", editor |-> 0]
\* burst: events = change events handled in the burst (2 stands for more),
\* since = ms since the timer was last armed, rearmed = setup() armed it again
\* after the burst's last event, runs = timer runs of updateDecorations since,
\* ranAt = the value of since at the first of them
NoBurst == [active |-> FALSE, events |-> 0, since |-> 0, rearmed |-> FALSE,
            runs |-> 0, ranAt |-> 0]

NoRange == [start |-> [line |-> 0, character |-> 0],
            end |-> [line |-> 0, character |-> 0]]

\* no completion request is under way
CompletionIdle ==
    /\ line = <<>>
    /\ position = [line |-> 0, character |-> 0]
    /\ complPc = "idle"
    /\ fillRange = NoRange
    /\ dir = <<>>
    /\ findFiles = "none"
    /\ subFiles = <<>>
    /\ items = <<>>

\* the state before activate(): nothing created, nothing registered
EditorIdle ==
    /\ activated = FALSE
    /\ cfgHighlight = FALSE
    /\ CONFIG = [highlight |-> FALSE]
    /\ smartyDecoration = "undefined"
    /\ editorRegistration = "undefined"
    /\ docRegistration = "undefined"
    /\ windowEditor = 0
    /\ activeTextEditor = 0
    /\ docs = <<>>
    /\ timers = {}
    /\ timeout = 0
    /\ lastSetDecorations = NoCall
    /\ lastEvent = "none"
    /\ burst = NoBurst

\* x && x.dispose()
dispose(x) == IF x = "undefined" THEN "undefined" ELSE "disposed"

Min(a, b) == IF a <= b THEN a ELSE b

\* a timer id no pending timer and no kept handle uses
freshTimerId(tm, to) ==
    CHOOSE i \in 1..(MaxTimers + 2) :
        /\ i # to
        /\ \A t \in tm : t.id # i
        /\ \A j \in 1..(i - 1) : j = to \/ \E t \in tm : t.id = j

\* clearTimeout(handle)
clearTimeout(tm, handle) == {t \in tm : t.id # handle}

\* bug variant: the pending timeout is not cleared before a new one is set
triggerUpdateDecorationsNoClear(tm, to) ==
    LET id == freshTimerId(tm, to) IN
    [timers |-> tm \cup {[id |-> id, remaining |-> DebounceMs]}, timeout |-> id]

\* triggerUpdateDecorations(): the timers and the timeout handle it leaves
triggerUpdateDecorations(tm, to) ==
    LET cleared == IF to # 0 THEN clearTimeout(tm, to) ELSE tm
        to1 == IF to # 0 THEN 0 ELSE to
        id == freshTimerId(cleared, to1)
    IN [timers |-> cleared \cup {[id |-> id, remaining |-> DebounceMs]},
        timeout |-> id]

\* updateDecorations() returns early
updateDecorationsSkips(editor) ==
    editor = 0 \/ languageId(editor) # "smarty"

\* updateDecorations() with activeTextEditor = editor and the decoration type
\* in state deco: the locals it leaves and the setDecorations call it makes
UpdateDecorations(editor, deco, texts) ==
    IF updateDecorationsSkips(editor)
    THEN /\ UNCHANGED <<docText, scanned, smartyTags>>
         /\ lastSetDecorations' = lastSetDecorations
    ELSE LET r == scanLoop(texts[editor], 0, <<>>, <<>>) IN
         /\ docText' = texts[editor]
         /\ scanned' = r.found
         /\ smartyTags' = r.tags
         /\ lastSetDecorations' = [type |-> deco, editor |-> editor]

\* setup(), called by activate() and by the configuration listener, with
\* smarty.highlight = highlight and activeTextEditor = editor
Setup(highlight, editor) ==
    /\ CONFIG' = [highlight |-> highlight]
    /\ IF ~highlight
       THEN \* lines 80-86: dispose and return
            /\ smartyDecoration' = dispose(smartyDecoration)
            /\ editorRegistration' = dispose(editorRegistration)
            /\ docRegistration' = dispose(docRegistration)
            /\ UNCHANGED <<timers, timeout, blockComment>>
       ELSE /\ smartyDecoration' = "live"
            /\ editorRegistration' = "live"
            /\ docRegistration' = "live"
            /\ IF editor # 0
               THEN LET t == triggerUpdateDecorations(timers, timeout) IN
                    /\ timers' = t.timers
                    /\ timeout' = t.timeout
                    /\ blockComment' = languagePair(docs[editor])
               ELSE UNCHANGED <<timers, timeout, blockComment>>
    /\ burst' = IF ~(highlight /\ editor # 0) THEN burst
                ELSE IF burst.active /\ burst.runs = 0
                THEN [burst EXCEPT !.since = 0, !.rearmed = TRUE]
                ELSE NoBurst
    /\ UNCHANGED <<docText, scanned, smartyTags, lastSetDecorations, scanPc>>

NoTimerDue == \A t \in timers : t.remaining > 0
CanSetTimer == Cardinality(timers) < MaxTimers

\* activate(): reads window.activeTextEditor, then calls setup()
Activate ==
    /\ ~activated
    /\ activated' = TRUE
    /\ activeTextEditor' = windowEditor
    /\ Setup(cfgHighlight, windowEditor)
    /\ lastEvent' = "activate"
    /\ UNCHANGED <<cfgHighlight, windowEditor, docs>>
    /\ UNCHANGED complVars

\* workspace.onDidChangeConfiguration: a change that affects "editor",
\* "html.format" or "smarty" runs setup()
ChangeConfiguration ==
    /\ activated /\ NoTimerDue /\ CanSetTimer
    /\ \E h \in BOOLEAN :
        /\ cfgHighlight' = h
        /\ Setup(h, activeTextEditor)
    /\ lastEvent' = "config"
    /\ UNCHANGED <<activated, windowEditor, activeTextEditor, docs>>
    /\ UNCHANGED complVars

\* window.onDidChangeActiveTextEditor
ChangeActiveTextEditor ==
    /\ activated /\ NoTimerDue
    /\ \E e \in ({0} \cup Docs) \ {windowEditor} :
        /\ windowEditor' = e
        /\ IF editorRegistration = "live"
           THEN /\ activeTextEditor' = e
                /\ IF e # 0
                   THEN /\ UpdateDecorations(e, smartyDecoration, docs)
                        /\ blockComment' = languagePair(docs[e])
                   ELSE UNCHANGED <<docText, scanned, smartyTags,
                                    lastSetDecorations, blockComment>>
           ELSE UNCHANGED <<activeTextEditor, docText, scanned, smartyTags,
                            lastSetDecorations, blockComment>>
    /\ lastEvent' = "editor"
    /\ UNCHANGED <<activated, cfgHighlight, CONFIG, smartyDecoration,
                   editorRegistration, docRegistration, docs, timers, timeout,
                   scanPc, burst>>
    /\ UNCHANGED complVars

\* the listener's guard: the changed document is the active editor's
changeIsHandled(d) ==
    docRegistration = "live" /\ activeTextEditor # 0 /\ d = activeTextEditor

\* workspace.onDidChangeTextDocument: document d now has another text
ChangeTextDocument ==
    /\ activated /\ NoTimerDue /\ CanSetTimer
    /\ \E d \in Docs : \E t \in EditorTexts \ {docs[d]} :
        /\ docs' = [docs EXCEPT ![d] = t]
        /\ IF changeIsHandled(d)
           THEN LET tr == triggerUpdateDecorations(timers, timeout) IN
                /\ timers' = tr.timers
                /\ timeout' = tr.timeout
                /\ burst' = [active |-> TRUE,
                             events |-> IF burst.active /\ burst.runs = 0
                                        THEN Min(burst.events + 1, 2) ELSE 1,
                             since |-> 0, rearmed |-> FALSE,
                             runs |-> 0, ranAt |-> 0]
                /\ lastEvent' = "edit"
           ELSE /\ UNCHANGED <<timers, timeout, burst>>
                /\ lastEvent' = "edit-unheard"
    /\ UNCHANGED <<activated, cfgHighlight, CONFIG, smartyDecoration,
                   editorRegistration, docRegistration, windowEditor,
                   activeTextEditor, blockComment, docText, scanned, smartyTags,
                   lastSetDecorations, scanPc>>
    /\ UNCHANGED complVars

ClockStep == DebounceMs \div TicksPerDelay
SinceCap == DebounceMs + ClockStep

\* time passes, up to the next timer's expiry. A timer that has expired
\* runs before time passes and before any later event is handled (NoTimerDue
\* guards the listeners): the event loop serves its timers first.
Tick ==
    /\ activated /\ NoTimerDue
    /\ LET dt == IF timers = {} THEN ClockStep
                 ELSE Min(ClockStep,
                          CHOOSE r \in {t.remaining : t \in timers} :
                              \A t \in timers : r <= t.remaining)
       IN /\ timers' = {[t EXCEPT !.remaining = @ - dt] : t \in timers}
          /\ burst' = IF burst.active
                      THEN [burst EXCEPT !.since = Min(@ + dt, SinceCap)]
                      ELSE burst
    /\ lastEvent' = "tick"
    /\ UNCHANGED <<activated, cfgHighlight, CONFIG, smartyDecoration,
                   editorRegistration, docRegistration, windowEditor,
                   activeTextEditor, docs, timeout, blockComment, docText,
                   scanned, smartyTags, lastSetDecorations, scanPc>>
    /\ UNCHANGED complVars

\* a timeout expires: the event loop calls updateDecorations
TimerFire ==
    /\ activated
    /\ \E t \in timers :
        /\ t.remaining = 0
        /\ timers' = timers \ {t}
    /\ UpdateDecorations(activeTextEditor, smartyDecoration, docs)
    /\ burst' = IF burst.active
                THEN [burst EXCEPT !.runs = Min(@ + 1, 2),
                                   !.ranAt = IF burst.runs = 0 THEN burst.since ELSE @]
                ELSE burst
    /\ lastEvent' = "timer"
    /\ UNCHANGED <<activated, cfgHighlight, CONFIG, smartyDecoration,
                   editorRegistration, docRegistration, windowEditor,
                   activeTextEditor, docs, timeout, blockComment, scanPc>>
    /\ UNCHANGED complVars

\* before activate(): the window and the setting are whatever they are
Init ==
    /\ docText = <<>>
    /\ scanned = <<>>
    /\ smartyTags = <<>>
    /\ blockComment = <<>>
    /\ scanPc = {}
    /\ activated = FALSE
    /\ cfgHighlight \in BOOLEAN
    /\ CONFIG = [highlight |-> FALSE]
    /\ smartyDecoration = "undefined"
    /\ editorRegistration = "undefined"
    /\ docRegistration = "undefined"
    /\ windowEditor \in {0} \cup Docs
    /\ activeTextEditor = 0
    /\ docs \in [Docs -> EditorTexts]
    /\ timers = {}
    /\ timeout = 0
    /\ lastSetDecorations = NoCall
    /\ lastEvent = "none"
    /\ burst = NoBurst
    /\ CompletionIdle

Next ==
    \/ Activate
    \/ ChangeConfiguration
    \/ ChangeActiveTextEditor
    \/ ChangeTextDocument
    \/ Tick
    \/ TimerFire

Spec == Init /\ [][Next]_vars

ScanInit ==
    /\ docText \in CharTexts \cup TagTexts
    /\ scanned = <<>>
    /\ smartyTags = <<>>
    /\ blockComment = <<>>
    /\ scanPc = {}
    /\ EditorIdle
    /\ CompletionIdle

UpdateDecorationsScan ==
    /\ "decorated" \notin scanPc
    /\ LET r == scanLoop(docText, 0, <<>>, <<>>) IN
           /\ scanned' = r.found
           /\ smartyTags' = r.tags
    /\ scanPc' = scanPc \cup {"decorated"}
    /\ UNCHANGED <<docText, blockComment>>
    /\ UNCHANGED editorVars
    /\ UNCHANGED complVars

SetLanguageConfigurationScan ==
    /\ "configured" \notin scanPc
    /\ blockComment' = languagePair(docText)
    /\ scanPc' = scanPc \cup {"configured"}
    /\ UNCHANGED <<docText, scanned, smartyTags>>
    /\ UNCHANGED editorVars
    /\ UNCHANGED complVars

ScanNext == UpdateDecorationsScan \/ SetLanguageConfigurationScan

SpecScan == ScanInit /\ [][ScanNext]_vars

(***************************************************************************)
(* completionItem.ts: CompletionItemProvider.provideCompletionItems        *)
(***************************************************************************)
IsQuote(c) == c \in {"'", "\""}

IncludeWord == <<"{", "i", "n", "c", "l", "u", "d", "e">>
FileAttr == <<"f", "i", "l", "e", "=">>

\* (?<={include\s+|file=) holds before offset i
lookbehindHolds(text, i) ==
    \/ i >= Len(FileAttr) /\ SubSeq(text, i - Len(FileAttr) + 1, i) = FileAttr
    \/ \E k \in 0..(i - Len(IncludeWord) - 1) :
          /\ SubSeq(text, k + 1, k + Len(IncludeWord)) = IncludeWord
          /\ \A j \in (k + Len(IncludeWord) + 1)..i : IsWhitespace(text[j])

\* regex_start matches with the quote at offset i:
\*   (?<={include\s+|file=)['"]([^'"\s]+)$
regexStartAt(text, i) ==
    /\ lookbehindHolds(text, i)
    /\ IsQuote(CharAt(text, i))
    /\ i + 1 < Len(text)
    /\ \A j \in (i + 2)..Len(text) : ~IsQuote(text[j]) /\ ~IsWhitespace(text[j])

\* textBefore.match(regex_start): [index, file] of the leftmost match, or
\* [index |-> NoMatch] for null
regexStartMatch(text) ==
    LET hits == {i \in 0..(Len(text) - 1) : regexStartAt(text, i)} IN
    IF hits = {} THEN [index |-> NoMatch, file |-> <<>>]
    ELSE LET i == CHOOSE h \in hits : \A g \in hits : h <= g IN
         [index |-> i, file |-> SubSeq(text, i + 2, Len(text))]

RECURSIVE dropTrailingNonSlash(_)
\* file.replace(/[^\/]+$/, '')
dropTrailingNonSlash(file) ==
    IF file = <<>> \/ file[Len(file)] = "/" THEN file
    ELSE dropTrailingNonSlash(SubSeq(file, 1, Len(file) - 1))

RECURSIVE splitPath(_, _, _)
\* the segments of a "/"-separated path (empty segments dropped)
splitPath(path, cur, acc) ==
    IF path = <<>> THEN (IF cur = <<>> THEN acc ELSE Append(acc, cur))
    ELSE IF Head(path) = "/"
         THEN splitPath(Tail(path), <<>>, IF cur = <<>> THEN acc ELSE Append(acc, cur))
         ELSE splitPath(Tail(path), Append(cur, Head(path)), acc)

RECURSIVE resolveSegments(_, _)
\* path.posix.resolve's normalisation: "." stays, ".." goes up
resolveSegments(base, segs) ==
    IF segs = <<>> THEN base
    ELSE IF Head(segs) = <<".">> THEN resolveSegments(base, Tail(segs))
    ELSE IF Head(segs) = <<".", ".">>
         THEN resolveSegments(IF base = <<>> THEN base
                              ELSE SubSeq(base, 1, Len(base) - 1), Tail(segs))
    ELSE resolveSegments(Append(base, Head(segs)), Tail(segs))

\* path.posix.resolve(docdir, sub), as segments below the workspace root
posixResolve(docdir, sub) == resolveSegments(docdir, splitPath(sub, <<>>, <<>>))

RECURSIVE joinPath(_)
\* the segments joined with "/"
joinPath(segs) ==
    IF segs = <<>> THEN <<>>
    ELSE IF Len(segs) = 1 THEN Head(segs)
    ELSE Head(segs) \o <<"/">> \o joinPath(Tail(segs))

\* path.relative(dir, f.fsPath) for a file f below dir
pathRelative(d, f) == joinPath(SubSeq(f, Len(d) + 1, Len(f)))

RECURSIVE firstSegment(_)
\* rel.replace(/\/.+/, ''): cut at the first "/" that a character follows
firstSegment(rel) ==
    IF rel = <<>> THEN <<>>
    ELSE IF Head(rel) = "/" /\ Len(rel) > 1 /\ ~IsLineTerminator(rel[2]) THEN <<>>
    ELSE <<Head(rel)>> \o firstSegment(Tail(rel))

\* bug variant: the opening quote is not counted
fillStartCharacterNoQuote(index, sub) == index + Len(sub)

\* line.range.start.translate(0, m.index).translate(0, sub.length + 1)
fillStartCharacter(index, sub) == index + (Len(sub) + 1)

\* bug variant: a directory is never taken as added
dirAlreadyAddedNever(addedDirs, dr) == FALSE

\* addedDirs.includes(dr)
dirAlreadyAdded(addedDirs, dr) == \E k \in 1..Len(addedDirs) : addedDirs[k] = dr

RECURSIVE completionLoop(_, _, _, _, _)
\* for (const f of subFiles) { ... }: the items it leaves
completionLoop(files, d, range, addedDirs, acc) ==
    IF files = <<>> THEN acc
    ELSE LET rel == pathRelative(d, Head(files)) IN
         IF Includes(rel, <<"/">>)
         THEN LET dr == firstSegment(rel) IN
              IF ~dirAlreadyAdded(addedDirs, dr)
              THEN completionLoop(Tail(files), d, range, Append(addedDirs, dr),
                       Append(acc, [label |-> dr \o <<"/">>, kind |-> "Folder",
                                    range |-> range]))
              ELSE completionLoop(Tail(files), d, range, addedDirs, acc)
         ELSE completionLoop(Tail(files), d, range, addedDirs,
                  Append(acc, [label |-> rel, kind |-> "File", range |-> range]))

(***************************************************************************)
(* SpecCompletion: one completion request on a line and cursor drawn from  *)
(* bounded sets, over a bounded workspace.                                 *)
(***************************************************************************)
Tpl(c) == <<c, ".", "t", "p", "l">>

\* path.dirname(document.uri.path), as segments below the workspace root
docdir == <<<<"w">>>>

\* the files a workspace may hold, as segments below the workspace root
FileUniverse ==
    { <<<<"w">>, Tpl("a")>>,
      <<<<"w">>, <<"i">>, Tpl("a")>>,
      <<<<"w">>, <<"i">>, <<"s">>, Tpl("b")>>,
      <<<<"w">>, <<"i">>, <<"s">>, Tpl("c")>>,
      <<<<"w">>, <<"i">>, <<"t">>, <<"u">>, Tpl("a")>>,
      <<<<"w">>, <<"i">>, <<"n", ".", "t", "x", "t">>>>,
      <<Tpl("r")>> }

\* the glob `${dir}/**/*.tpl`
matchesGlob(d, f) ==
    /\ Len(f) > Len(d)
    /\ SubSeq(f, 1, Len(d)) = d
    /\ LET name == f[Len(f)] IN
       Len(name) > 4 /\ SubSeq(name, Len(name) - 3, Len(name)) = <<".", "t", "p", "l">>

LinePrefixes ==
    { <<"{">> \o Tail(IncludeWord) \o <<" ">> \o FileAttr,
      IncludeWord \o <<" ", " ">>,
      IncludeWord,
      <<"a", "=">> }
LineFragments ==
    { <<".", "/">>,
      <<".", "/", "i", "/">>,
      <<".", "/", "i", "/", "s">>,
      <<".", ".", "/", "a">>,
      <<".", "/", ".", ".", "/">>,
      <<"b">>,
      <<".", "/", "i", " ", "s">> }

Lines ==
    {pre \o <<q>> \o frag \o post :
        pre \in LinePrefixes, q \in {"'", "\""}, frag \in LineFragments,
        post \in {<<>>, <<"\"", "}">>}}

CompletionInit ==
    /\ line \in Lines
    /\ \E c \in 0..Len(line) : position = [line |-> 0, character |-> c]
    /\ complPc = "idle"
    /\ fillRange = NoRange
    /\ dir = <<>>
    /\ findFiles = "none"
    /\ subFiles = <<>>
    /\ items = <<>>
    /\ docText = <<>>
    /\ scanned = <<>>
    /\ smartyTags = <<>>
    /\ blockComment = <<>>
    /\ scanPc = {}
    /\ EditorIdle

\* document.getText(new Range(line.range.start, position))
textBefore == SubSeq(line, 1, position.character)

\* provideCompletionItems up to its first return or its await (lines 11-42)
ProvideCompletionItems ==
    /\ complPc = "idle"
    /\ LET m == regexStartMatch(textBefore) IN
       IF m.index = NoMatch \/ ~StartsWith(m.file, <<".", "/">>)
       THEN \* return [] (lines 17-19, 24-26)
            /\ complPc' = "returned"
            /\ UNCHANGED <<fillRange, dir, findFiles>>
       ELSE LET sub == dropTrailingNonSlash(m.file) IN
            /\ dir' = posixResolve(docdir, sub)
            /\ fillRange' = Range([line |-> position.line,
                                   character |-> fillStartCharacter(m.index, sub)],
                                  position)
            /\ findFiles' = "pending"
            /\ complPc' = "awaiting"
    /\ UNCHANGED <<line, position, subFiles, items>>
    /\ UNCHANGED <<scanVars, editorVars, blockComment>>

\* the orders a set of files can come in
Orderings(S) ==
    {f \in [1..Cardinality(S) -> S] : \A a, b \in 1..Cardinality(S) : a # b => f[a] # f[b]}

\* findFiles resolves: the loop runs and the items are returned (lines 43-72)
FindFilesResolves ==
    /\ complPc = "awaiting"
    /\ \E fs \in SUBSET {f \in FileUniverse : matchesGlob(dir, f)} :
        /\ Cardinality(fs) <= MaxFound
        /\ \E found \in Orderings(fs) :
            /\ subFiles' = found
            /\ items' = completionLoop(found, dir, fillRange, <<>>, <<>>)
    /\ findFiles' = "resolved"
    /\ complPc' = "returned"
    /\ UNCHANGED <<line, position, fillRange, dir>>
    /\ UNCHANGED <<scanVars, editorVars, blockComment>>

\* findFiles rejects: the await throws, nothing catches it, and the promise
\* provideCompletionItems returned rejects
FindFilesRejects ==
    /\ complPc = "awaiting"
    /\ findFiles' = "rejected"
    /\ complPc' = "rejected"
    /\ UNCHANGED <<line, position, fillRange, dir, subFiles, items>>
    /\ UNCHANGED <<scanVars, editorVars, blockComment>>

CompletionNext ==
    \/ ProvideCompletionItems
    \/ FindFilesResolves
    \/ FindFilesRejects

SpecCompletion == CompletionInit /\ [][CompletionNext]_vars

(***************************************************************************)
(* Properties of the event handlers (Spec)                                 *)
(***************************************************************************)
\* the listeners of setup() are registered and an editor is active
Listening ==
    /\ editorRegistration = "live"
    /\ docRegistration = "live"
    /\ activeTextEditor # 0

\* C7: after every change of the active editor and every edit of the active
\* document, setLanguageConfiguration has run on the document's current text:
\* the configured block-comment pair is the pair of that text.
C7_DialectRecomputedOnFocusAndEdit ==
    (Listening /\ lastEvent \in {"editor", "edit"}) =>
        blockComment = languagePair(docs[activeTextEditor])

C10_NeverAppliesDisposedDecoration ==
    lastSetDecorations.type \in {"none", "live"}

(***************************************************************************)
(* Properties of the completion provider (SpecCompletion)                  *)
(***************************************************************************)
\* C4: when the findFiles call fails, provideCompletionItems completes with
\* an empty list; no rejected promise leaves it.
C4_EnumerationFailureYieldsEmptyList ==
    findFiles = "rejected" => (complPc = "returned" /\ items = <<>>)

\* the files findFiles resolved with, as segments below dir
ListedBelowDir == {SubSeq(subFiles[k], Len(dir) + 1, Len(subFiles[k])) : k \in 1..Len(subFiles)}
ItemsOfKind(kind) == {k \in 1..Len(items) : items[k].kind = kind}

\* C5: whatever files findFiles resolves with, in whatever order, the items
\* are one Folder item `<segment>/` for each distinct first segment of the
\* files in subdirectories and one File item, labelled with the file name,
\* for each file directly in the target directory; no two items share a label.
C5_OneCandidatePerEntry ==
    findFiles = "resolved" =>
        LET nested == {r \in ListedBelowDir : Len(r) > 1}
            direct == {r \in ListedBelowDir : Len(r) = 1}
            folderLabels == {r[1] \o <<"/">> : r \in nested}
            fileLabels == {r[1] : r \in direct}
        IN /\ {items[k].label : k \in ItemsOfKind("Folder")} = folderLabels
           /\ Cardinality(ItemsOfKind("Folder")) = Cardinality(folderLabels)
           /\ {items[k].label : k \in ItemsOfKind("File")} = fileLabels
           /\ Cardinality(ItemsOfKind("File")) = Cardinality(fileLabels)
           /\ ItemsOfKind("Folder") \cup ItemsOfKind("File") = 1..Len(items)
           /\ \A a, b \in 1..Len(items) :
                 a # b => items[a].label # items[b].label

\* two files of one subdirectory with a direct file listed between them
C5_Witness ==
    /\ findFiles = "resolved"
    /\ Len(subFiles) = 3
    /\ Len(subFiles[1]) > Len(dir) + 1
    /\ Len(subFiles[2]) = Len(dir) + 1
    /\ Len(subFiles[3]) > Len(dir) + 1
    /\ subFiles[1][Len(dir) + 1] = subFiles[3][Len(dir) + 1]
    /\ Len(items) = 2
    /\ items[1].kind = "Folder" /\ items[2].kind = "File"

\* the column just after the last "/" before the cursor (0 if there is none)
AfterLastSlash ==
    LET slashes == {k \in 1..Len(textBefore) : textBefore[k] = "/"} IN
    IF slashes = {} THEN 0 ELSE CHOOSE k \in slashes : \A j \in slashes : j <= k

\* C6: once the trigger has matched a fragment that starts with "./", the
\* replacement range starts at the column just after the fragment's last "/"
\* and ends at the cursor: it covers the partial segment typed after the last
\* path separator, and nothing of the quote or of the directory portion.
C6_ReplaceRangeIsPartialSegment ==
    findFiles # "none" =>
        LET covered == SubSeq(line, fillRange.start.character + 1,
                              fillRange.end.character)
        IN /\ fillRange.start = [line |-> position.line, character |-> AfterLastSlash]
           /\ fillRange.end = position
           /\ fillRange.start.character >= 1
           /\ line[fillRange.start.character] = "/"
           /\ \A k \in 1..Len(covered) : covered[k] # "/" /\ ~IsQuote(covered[k])
           /\ \A k \in 1..Len(items) : items[k].range = fillRange

\* a candidate was produced for "./i/s": the range covers the "s" alone
C6_Witness ==
    /\ findFiles = "resolved"
    /\ Len(items) >= 1
    /\ SubSeq(line, fillRange.start.character + 1, fillRange.end.character) = <<"s">>
    /\ SubSeq(line, fillRange.start.character - 3, fillRange.start.character)
         = <<".", "/", "i", "/">>
    /\ IsQuote(line[fillRange.start.character - 4])
    /\ position.character < Len(line)

(***************************************************************************)
(* Properties of the scan (SpecScan)                                       *)
(***************************************************************************)
Decorated == "decorated" \in scanPc
Configured == "configured" \in scanPc

NumSpans == Len(scanned)
SpanText(i) == SubSeq(docText, scanned[i].index + 1, scanned[i].end)
SpanRange(i) ==
    Range(positionAt(docText, scanned[i].index), positionAt(docText, scanned[i].end))
HasOpen(i) == Includes(SpanText(i), LiteralOpen)
HasClose(i) == Includes(SpanText(i), LiteralClose)
\* the decorations as offset pairs
EmittedOffsets ==
    {<<offsetAt(docText, smartyTags[k].range.start),
       offsetAt(docText, smartyTags[k].range.end)>> : k \in 1..Len(smartyTags)}
Emitted(i) == <<scanned[i].index, scanned[i].end>> \in EmittedOffsets

\* span j lies after the emitted opening span i with no closing span in i+1..j
InsideLiteralOf(i, j) ==
    /\ i < j
    /\ Emitted(i) /\ HasOpen(i)
    /\ \A k \in (i + 1)..j : ~HasClose(k)

\* C1: every span after an emitted span containing {literal} and before the
\* next span containing {/literal} is left out of the decoration list, however
\* many there are; the closing span is in the list, and a span is left out
\* only for that reason (so an opening span outside a literal region is in
\* the list).
C1_LiteralRegionDropped ==
    Decorated =>
        LET em == {i \in 1..NumSpans : Emitted(i)}
            open == {i \in 1..NumSpans : HasOpen(i)}
            close == {i \in 1..NumSpans : HasClose(i)}
            inside == {j \in 1..NumSpans :
                         \E i \in (em \cap open) :
                             i < j /\ ((i + 1)..j) \cap close = {}}
        IN /\ inside \cap em = {}
           /\ close \subseteq em
           /\ (1..NumSpans) \ em \subseteq inside
           /\ Len(smartyTags) = Cardinality(em)

C1_Witness ==
    /\ Decorated
    /\ \E i \in 1..NumSpans :
          /\ i + 3 <= NumSpans
          /\ InsideLiteralOf(i, i + 2)
          /\ ~Emitted(i + 1) /\ ~Emitted(i + 2)
          /\ HasClose(i + 3) /\ Emitted(i + 3)

\* C2: the spans the scan loop finds start at strictly increasing offsets and
\* do not overlap: each starts at or after the end of the one before it.
C2_SpansIncreasing ==
    Decorated =>
        /\ \A i \in 1..NumSpans :
              0 <= scanned[i].index /\ scanned[i].index < scanned[i].end
              /\ scanned[i].end <= Len(docText)
        /\ \A i \in 1..(NumSpans - 1) :
              /\ scanned[i].index < scanned[i + 1].index
              /\ scanned[i].end <= scanned[i + 1].index

C2_Witness ==
    /\ Decorated
    /\ NumSpans >= 2
    /\ \E i \in 1..(NumSpans - 1) : scanned[i].end = scanned[i + 1].index
    /\ SpanText(1) = <<"{", "{", "a", "}", "}">>

\* the braces of a tag body come as "{" "}" pairs: one level of nesting
OneLevelBraces(body) ==
    LET braces == SelectSeq(body, LAMBDA c : c \in {"{", "}"}) IN
    /\ Len(braces) % 2 = 0
    /\ \A k \in 1..Len(braces) : braces[k] = (IF k % 2 = 1 THEN "{" ELSE "}")

\* s is a directive tag with doubled braces on both sides
IsDoubleGenericTag(s) ==
    /\ Len(s) >= 5
    /\ s[1] = "{" /\ s[2] = "{"
    /\ s[3] # "}" /\ ~IsWhitespace(s[3])
    /\ s[Len(s) - 1] = "}" /\ s[Len(s)] = "}"
    /\ OneLevelBraces(SubSeq(s, 4, Len(s) - 2))

\* s is a comment tag with doubled braces on both sides
IsDoubleCommentTag(s) ==
    /\ Len(s) >= 6
    /\ s[1] = "{" /\ s[2] = "{" /\ s[3] = "*"
    /\ s[Len(s) - 2] = "*" /\ s[Len(s) - 1] = "}" /\ s[Len(s)] = "}"
    /\ \A k \in 4..(Len(s) - 3) : ~IsLineTerminator(s[k])

HasDoubleTag(text) ==
    \E i \in 1..Len(text) :
        /\ text[i] = "{"
        /\ \E j \in i..Len(text) :
              /\ text[j] = "}"
              /\ \/ IsDoubleGenericTag(SubSeq(text, i, j))
                 \/ IsDoubleCommentTag(SubSeq(text, i, j))

\* C3: setLanguageConfiguration sets the double-brace comment pair exactly
\* when the text holds a tag with doubled braces on both sides, wherever it
\* is; otherwise it sets the single-brace pair.
C3_DoublePairIffDoubleTag ==
    Configured =>
        /\ blockComment \in {SinglePair, DoublePair}
        /\ (blockComment = DoublePair) <=> HasDoubleTag(docText)

C3_Witness ==
    /\ Configured
    /\ blockComment = DoublePair
    /\ StartsWith(docText, TagA \o TagA)
    /\ doubleBraceRegExpAt(docText, 0) = NoMatch

RECURSIVE flagPass(_, _, _)
\* the forward pass with an explicit flag: the indices of the spans it emits.
\* A span holding both markers is emitted and leaves the flag set.
flagPass(i, insideLiteral, out) ==
    IF i > NumSpans THEN out
    ELSE IF insideLiteral /\ ~HasClose(i) THEN flagPass(i + 1, insideLiteral, out)
    ELSE flagPass(i + 1,
                  IF HasOpen(i) THEN TRUE
                  ELSE IF HasClose(i) THEN FALSE ELSE insideLiteral,
                  Append(out, i))

FlagPassTags ==
    LET idx == flagPass(1, FALSE, <<>>) IN
    [k \in 1..Len(idx) |-> [range |-> SpanRange(idx[k])]]

\* C9: the decoration list built with the one-span lookbehind equals the list
\* of the single forward pass that carries the boolean insideLiteral.
C9_LookbehindEqualsFlag ==
    Decorated => smartyTags = FlagPassTags

\* two literal blocks back to back, the second with a dropped tag inside
C9_Witness ==
    /\ Decorated
    /\ \E i \in 1..NumSpans :
          /\ i + 4 <= NumSpans
          /\ HasOpen(i) /\ ~HasClose(i) /\ Emitted(i)
          /\ HasClose(i + 1) /\ ~HasOpen(i + 1)
          /\ scanned[i + 1].end = scanned[i + 2].index
          /\ HasOpen(i + 2) /\ ~HasClose(i + 2) /\ Emitted(i + 2)
          /\ ~Emitted(i + 3)
          /\ HasClose(i + 4) /\ Emitted(i + 4)

====
